---- MODULE Spec2Model ----
(***************************************************************************)
(* Model of validate-package.js: the PackageValidator class (log,          *)
(* validateMetaYaml, validatePackageDefinition, validateTemplates,         *)
(* validatePackageTemplates, findTemplateFiles, validateTemplateFile,      *)
(* validateGoTemplate, validateReadmeTemplate, generateReport, validate)   *)
(* and main.  JavaScript values are tagged records, strings are TLA+       *)
(* strings, and the regular expressions of the source are matched          *)
(* character by character.                                                 *)
(***************************************************************************)
EXTENDS Integers, Sequences, FiniteSets, TLC

(***************************************************************************)
(* Bounds of the model.                                                    *)
(***************************************************************************)
\* longest packages array of the catalogs built from PkgValues
MaxPkgs == 2
\* number of runs of the validator on the same, unchanged input
MaxRuns == 2

(***************************************************************************)
(* JavaScript values, as yaml.load produces them.                          *)
(***************************************************************************)
Undefined == [k |-> "undefined", s |-> "", n |-> 0]
Null == [k |-> "null", s |-> "", n |-> 0]
Str(s) == [k |-> "string", s |-> s, n |-> 0]
Num(n) == [k |-> "number", s |-> "", n |-> n]
Bool(b) == [k |-> "boolean", s |-> "", n |-> IF b THEN 1 ELSE 0]
\* an array value; s holds its elements joined with "," (Array.toString)
Arr(joined) == [k |-> "array", s |-> joined, n |-> 0]

\* ToBoolean with an array taken as falsy
Truthy_arrayFalsy(v) ==
    CASE v.k = "string" -> v.s # ""
      [] v.k = "number" -> v.n # 0
      [] v.k = "boolean" -> v.n = 1
      [] OTHER -> FALSE

\* ToBoolean: undefined, null, "", 0 and false are falsy
Truthy(v) ==
    CASE v.k = "string" -> v.s # ""
      [] v.k = "number" -> v.n # 0
      [] v.k = "boolean" -> v.n = 1
      [] v.k = "array" -> TRUE
      [] OTHER -> FALSE

\* Array.isArray
IsArray(v) == v.k = "array"

\* ToString of a value interpolated into a template literal
ToStr(v) ==
    CASE v.k = "string" -> v.s
      [] v.k = "number" -> ToString(v.n)
      [] v.k = "boolean" -> (IF v.n = 1 THEN "true" ELSE "false")
      [] v.k = "array" -> v.s
      [] v.k = "null" -> "null"
      [] OTHER -> "undefined"

(***************************************************************************)
(* String methods and the regular expressions of the source.               *)
(***************************************************************************)
CharAt(s, i) == IF i >= 1 /\ i <= Len(s) THEN SubSeq(s, i, i) ELSE ""

\* the characters from..to of s (1-based, inclusive), cut at the end of s
Substring(s, from, to) == SubSeq(s, from, IF to > Len(s) THEN Len(s) ELSE to)

\* String.prototype.includes
Includes(s, sub) ==
    \E i \in 0..(Len(s) - Len(sub)) : SubSeq(s, i + 1, i + Len(sub)) = sub

\* String.prototype.endsWith
EndsWith(s, suffix) ==
    /\ Len(s) >= Len(suffix)
    /\ SubSeq(s, Len(s) - Len(suffix) + 1, Len(s)) = suffix

LowerChars ==
    {"a", "b", "c", "d", "e", "f", "g", "h", "i", "j", "k", "l", "m",
     "n", "o", "p", "q", "r", "s", "t", "u", "v", "w", "x", "y", "z"}
UpperChars ==
    {"A", "B", "C", "D", "E", "F", "G", "H", "I", "J", "K", "L", "M",
     "N", "O", "P", "Q", "R", "S", "T", "U", "V", "W", "X", "Y", "Z"}
DigitChars == {"0", "1", "2", "3", "4", "5", "6", "7", "8", "9"}
\* \w
WordChars == LowerChars \cup UpperChars \cup DigitChars \cup {"_"}
\* \s
SpaceChars == {" ", "\t", "\n", "\r", "\f"}
\* the characters the regex dot does not match
LineTerminators == {"\n", "\r"}

\* every character of s[from..to] is in class (true of an empty range)
AllIn(s, from, to, class) == \A t \in from..to : CharAt(s, t) \in class

\* end of the longest run of class characters that starts at from
\* (from - 1 when the run is empty)
RECURSIVE RunEnd(_, _, _)
RunEnd(s, from, class) ==
    IF from <= Len(s) /\ CharAt(s, from) \in class
    THEN RunEnd(s, from + 1, class)
    ELSE from - 1

\* String.prototype.toLowerCase, on the letters the inputs use
LowerOf(c) ==
    CASE c = "A" -> "a" [] c = "B" -> "b" [] c = "C" -> "c" [] c = "D" -> "d"
      [] c = "E" -> "e" [] c = "F" -> "f" [] c = "G" -> "g" [] c = "H" -> "h"
      [] c = "I" -> "i" [] c = "J" -> "j" [] c = "K" -> "k" [] c = "L" -> "l"
      [] c = "M" -> "m" [] c = "N" -> "n" [] c = "O" -> "o" [] c = "P" -> "p"
      [] c = "Q" -> "q" [] c = "R" -> "r" [] c = "S" -> "s" [] c = "T" -> "t"
      [] c = "U" -> "u" [] c = "V" -> "v" [] c = "W" -> "w" [] c = "X" -> "x"
      [] c = "Y" -> "y" [] c = "Z" -> "z" [] OTHER -> c

RECURSIVE ToLowerCase(_)
ToLowerCase(s) ==
    IF s = "" THEN ""
    ELSE LowerOf(CharAt(s, 1)) \o ToLowerCase(SubSeq(s, 2, Len(s)))

\* c === c.toUpperCase(): false exactly for the lowercase letters
IsOwnUpperCase(c) == c \notin LowerChars

\* /^[a-z0-9\-]+\/[a-z0-9\-]+$/
NameChars == LowerChars \cup DigitChars \cup {"-"}
MatchesNameFormat(s) ==
    \E i \in 2..(Len(s) - 1) :
        /\ CharAt(s, i) = "/"
        /\ AllIn(s, 1, i - 1, NameChars)
        /\ AllIn(s, i + 1, Len(s), NameChars)

\* /^\d+\.\d+$/
MatchesMetaVersion(s) ==
    \E i \in 2..(Len(s) - 1) :
        /\ CharAt(s, i) = "."
        /\ AllIn(s, 1, i - 1, DigitChars)
        /\ AllIn(s, i + 1, Len(s), DigitChars)

\* /^v?\d+\.\d+\.\d+/
MatchesSemver(s) ==
    LET start == IF CharAt(s, 1) = "v" THEN 2 ELSE 1
        e1 == RunEnd(s, start, DigitChars)
        e2 == RunEnd(s, e1 + 2, DigitChars)
    IN  /\ e1 >= start
        /\ CharAt(s, e1 + 1) = "."
        /\ e2 >= e1 + 2
        /\ CharAt(s, e2 + 1) = "."
        /\ CharAt(s, e2 + 2) \in DigitChars

\* /^package\s+\w+/m
MatchesPackageDecl(content) ==
    \E i \in 1..Len(content) :
        /\ i = 1 \/ CharAt(content, i - 1) \in LineTerminators
        /\ Substring(content, i, i + 6) = "package"
        /\ LET e == RunEnd(content, i + 7, SpaceChars)
           IN  e >= i + 7 /\ CharAt(content, e + 1) \in WordChars

\* one match of /func\s+(\w+)/ starting exactly at position i: the position
\* of its last character, or 0 when there is no match at i
FuncMatchEnd(content, i) ==
    IF i + 3 <= Len(content) /\ SubSeq(content, i, i + 3) = "func"
    THEN LET ws == RunEnd(content, i + 4, SpaceChars)
             we == RunEnd(content, ws + 1, WordChars)
         IN  IF ws >= i + 4 /\ we >= ws + 1 THEN we ELSE 0
    ELSE 0

\* content.match(/func\s+(\w+)/g): the matched substrings, left to right,
\* not overlapping (the empty sequence stands for null)
RECURSIVE FuncMatchesFrom(_, _)
FuncMatchesFrom(content, i) ==
    IF i > Len(content) THEN <<>>
    ELSE LET e == FuncMatchEnd(content, i)
         IN  IF e > 0
             THEN <<SubSeq(content, i, e)>> \o FuncMatchesFrom(content, e + 1)
             ELSE FuncMatchesFrom(content, i + 1)

\* match.replace('func ', ''): removes the first occurrence of "func "
ReplaceFuncPrefix(match) ==
    IF Len(match) >= 5 /\ SubSeq(match, 1, 5) = "func "
    THEN SubSeq(match, 6, Len(match))
    ELSE match

\* content.match(new RegExp('//.*\\n\\s*func\\s+' + funcName, 'm'))
MatchesDocComment(content, funcName) ==
    \E i \in 1..Len(content) :
        /\ Substring(content, i, i + 1) = "//"
        /\ \E j \in (i + 2)..Len(content) :
            /\ CharAt(content, j) = "\n"
            /\ \A t \in (i + 2)..(j - 1) :
                   CharAt(content, t) \notin LineTerminators
            /\ \E k \in (j + 1)..Len(content) :
                /\ AllIn(content, j + 1, k - 1, SpaceChars)
                /\ Substring(content, k, k + 3) = "func"
                /\ \E l \in (k + 5)..Len(content) :
                    /\ AllIn(content, k + 4, l - 1, SpaceChars)
                    /\ Substring(content, l, l + Len(funcName) - 1) = funcName

(***************************************************************************)
(* The working directory the validator runs in: what fs.existsSync,        *)
(* fs.readdirSync, fs.statSync and fs.readFileSync answer.  The tree does  *)
(* not change during a run.                                                *)
(***************************************************************************)
\* path.join(dir, item)
PathJoin(dir, item) == dir \o "/" \o item

\* Template sources assembled from fragments: every subset of the fragments,
\* in the order written, is the content of one Go template / one README
GoFragments ==
    <<"package p\n", "import \"go.uber.org/fx\"\n", "var Module = 1\n",
      "// Get it\nfunc Get() {}\n", "func Put() {}\n", "func low() {}\n",
      "// {{.Title}}\n">>
DocFragments == <<"# Head\n", "Install it\n", "~~~\ncode\n~~~\n">>
\* Go sources with a doc comment that is not on the line before the function
EdgeGoContents ==
    <<"package p\n// GetAll\nfunc GetAll() {}\nfunc Get() {}\n",
      "package p\nfunc _hid() {}\n",
      "package p\n// doc\n\nfunc Get() {}\n",
      "package p\nvar x = 1 // note\nfunc Get() {}\n",
      "package p\n// {{.Title}}\nfunc New() {}\n">>
\* file names of documentation templates, in several letter cases
DocNames ==
    <<"README.md.tmpl", "readme.txt.tmpl", "Readme.md.tmpl", "ReadMe.md.tmpl",
      "notes.txt.tmpl", "readme.go.tmpl">>

RECURSIVE PickJoin(_, _, _)
PickJoin(frags, S, i) ==
    IF i > Len(frags) THEN ""
    ELSE (IF i \in S THEN frags[i] ELSE "") \o PickJoin(frags, S, i + 1)
RECURSIVE PickBits(_, _, _)
PickBits(frags, S, i) ==
    IF i > Len(frags) THEN ""
    ELSE (IF i \in S THEN "1" ELSE "0") \o PickBits(frags, S, i + 1)

GoProbeDir(S) == "templates/go" \o PickBits(GoFragments, S, 1)
EdgeGoDir(n) == "templates/edge" \o ToString(n)
DocProbeDir(n, S) ==
    "templates/doc" \o ToString(n) \o PickBits(DocFragments, S, 1)
GoProbeSets == SUBSET (1..Len(GoFragments))
DocProbeSets == SUBSET (1..Len(DocFragments))
DocProbes == (1..Len(DocNames)) \X DocProbeSets

ProbeDirEntries ==
    [d \in {GoProbeDir(S) : S \in GoProbeSets} |-> <<"probe.go.tmpl">>]
    @@ [d \in {EdgeGoDir(n) : n \in 1..Len(EdgeGoContents)} |-> <<"edge.go.tmpl">>]
    @@ [d \in {DocProbeDir(q[1], q[2]) : q \in DocProbes} |->
           <<DocNames[CHOOSE n \in 1..Len(DocNames) :
                         \E S \in DocProbeSets : d = DocProbeDir(n, S)]>>]

ProbeFileContents ==
    [f \in {PathJoin(GoProbeDir(S), "probe.go.tmpl") : S \in GoProbeSets} |->
        PickJoin(GoFragments,
                 CHOOSE S \in GoProbeSets :
                     f = PathJoin(GoProbeDir(S), "probe.go.tmpl"), 1)]
    @@ [f \in {PathJoin(EdgeGoDir(n), "edge.go.tmpl") :
                  n \in 1..Len(EdgeGoContents)} |->
           EdgeGoContents[CHOOSE n \in 1..Len(EdgeGoContents) :
                              f = PathJoin(EdgeGoDir(n), "edge.go.tmpl")]]
    @@ [f \in {PathJoin(DocProbeDir(q[1], q[2]), DocNames[q[1]]) : q \in DocProbes} |->
           "Body\n" \o PickJoin(DocFragments,
               (CHOOSE q \in DocProbes :
                   f = PathJoin(DocProbeDir(q[1], q[2]), DocNames[q[1]]))[2], 1)]

\* fs.readdirSync of every directory, in the order the filesystem lists it
DirEntries ==
    ("templates/cache" :> <<"cache.go.tmpl", "README.md.tmpl">>)
    @@ ("templates/http" :> <<"handler.go.tmpl", "docs">>)
    @@ ("templates/http/docs" :> <<"guide.md", "api.txt.tmpl">>)
    @@ ("templates/secret" :> <<"config.yaml.tmpl", "db.go.tmpl">>)
    @@ ("templates/nodecl" :> <<"mod.go.tmpl">>)
    @@ ("templates/empty" :> <<"notes.txt">>)
    @@ ("templates/broken" :> <<"a.txt.tmpl", "dangling.tmpl">>)
    @@ ("templates/cachestatic" :> <<"cache.go.tmpl", "README.md.tmpl">>)
    @@ ("templates/cachepub" :> <<"cache.go.tmpl", "README.md.tmpl">>)
    @@ ProbeDirEntries

\* fs.readFileSync(path, 'utf8') of every regular file
FileContents ==
    ("templates/cache/cache.go.tmpl" :>
        "package cache\n// {{.Title}}\nfunc newCache() {}\n")
    @@ ("templates/cache/README.md.tmpl" :> "# {{.Title}}\nUsage\n")
    @@ ("templates/http/handler.go.tmpl" :>
        "package http\n// {{.Title}}\n\n// Serve it\nfunc Serve() {}\nfunc Stop() {}\n")
    @@ ("templates/http/docs/guide.md" :> "# Guide\n")
    @@ ("templates/http/docs/api.txt.tmpl" :> "static text\n")
    @@ ("templates/secret/config.yaml.tmpl" :>
        "name: {{.Package}}\npassword = \"hunter2\"\n")
    @@ ("templates/secret/db.go.tmpl" :>
        "package db\n// {{.Module}}\nvar token = \"s3cr3t\"\n")
    @@ ("templates/nodecl/mod.go.tmpl" :>
        "import \"x\"\nfunc Provide() {{.Module}}\n")
    @@ ("templates/empty/notes.txt" :> "notes\n")
    @@ ("templates/broken/a.txt.tmpl" :> "{{.Title}}\n")
    @@ ("templates.txt" :> "not a directory\n")
    @@ ("templates/cachestatic/cache.go.tmpl" :> "package cache\n")
    @@ ("templates/cachestatic/README.md.tmpl" :> "# Cache\n")
    @@ ("templates/cachepub/cache.go.tmpl" :>
        "package cache\n// {{.Title}}\nfunc New() {}\n")
    @@ ("templates/cachepub/README.md.tmpl" :> "# {{.Title}}\n")
    @@ ProbeFileContents

\* entries readdirSync lists but statSync cannot resolve (a broken link)
DanglingEntries == {"templates/broken/dangling.tmpl"}

\* fs.existsSync: false for a missing path and for a non-string argument
ExistsSync(p) ==
    /\ p.k = "string"
    /\ p.s \in (DOMAIN DirEntries) \cup (DOMAIN FileContents)

\* fs.statSync(p).isDirectory()
IsDirectory(path) == path \in DOMAIN DirEntries

(***************************************************************************)
(* The catalogs the validator is run on.                                   *)
(***************************************************************************)
requiredFields == <<"version", "repository", "author", "license", "packages">>
requiredPackageFields ==
    <<"name", "title", "description", "type", "templates", "version">>
validTypes == <<"fx-module", "cli-command", "utility", "middleware", "service">>
\* validTypes.join(', ')
validTypesJoined == "fx-module, cli-command, utility, middleware, service"
commonVars == <<"Title", "Package", "Module", "Namespace", "Description">>

\* one entry of the packages array: a mapping, or null (an empty list item)
Pkg(name, type, templates) ==
    [k |-> "object", name |-> Str(name), title |-> Str("Title"),
     description |-> Str("About"), type |-> Str(type),
     templates |-> Str(templates), version |-> Str("v1.0.0"),
     tags |-> Undefined, dependencies |-> Undefined]
NullPkg ==
    [k |-> "null", name |-> Undefined, title |-> Undefined,
     description |-> Undefined, type |-> Undefined, templates |-> Undefined,
     version |-> Undefined, tags |-> Undefined, dependencies |-> Undefined]

PkgCache == Pkg("acme/cache", "fx-module", "templates/cache")
PkgHttp == Pkg("acme/http", "middleware", "templates/http")
PkgSecret == Pkg("acme/secret", "utility", "templates/secret")
PkgNoDecl == Pkg("acme/nodecl", "fx-module", "templates/nodecl")
PkgEmptyDir == Pkg("acme/empty", "service", "templates/empty")
PkgFileAsDir == Pkg("acme/plain", "utility", "templates.txt")
PkgBroken == Pkg("acme/broken", "cli-command", "templates/broken")
PkgMissingDir == Pkg("acme/missing", "utility", "templates/missing")
\* version: 1.0 written without quotes is a number
PkgNumVersion == [PkgHttp EXCEPT !.version = Num(1)]
PkgNumName == [PkgHttp EXCEPT !.name = Num(42)]
PkgNoNameVersion ==
    [PkgCache EXCEPT !.name = Undefined, !.version = Undefined]
PkgOddFormats ==
    [PkgHttp EXCEPT !.name = Str("Acme/Http"), !.type = Str("plugin"),
                    !.version = Str("1.0"), !.tags = Str("web"),
                    !.dependencies = Arr("acme/cache")]

\* acme/cache over a directory whose two templates hold no substitution marker
PkgCacheStatic == Pkg("acme/cache", "fx-module", "templates/cachestatic")
\* acme/cache whose Go template declares an exported function without comment
PkgCachePub == Pkg("acme/cache", "fx-module", "templates/cachepub")

\* values of the optional fields tags and dependencies
OptionalValues ==
    {Undefined, Null, Str(""), Num(0), Bool(FALSE), Str("web"), Num(5),
     Bool(TRUE), Arr(""), Arr("web,cache")}
OptionalPkgs ==
    {[PkgCache EXCEPT !.tags = t, !.dependencies = d] :
        t \in OptionalValues, d \in OptionalValues}

\* type and version values the two format rules look at
AdvisoryPkgs ==
    {[PkgCache EXCEPT !.type = Str(t), !.version = w] :
        t \in {"fx-module", "service", "plugin", "Utility"},
        w \in {Str("v1.0.0"), Str("1.2.3-beta"), Str("1.0"), Str("latest"),
               Str("v1"), Num(1)}}

\* one package over each assembled templates directory
ProbePkgs ==
    {Pkg("acme/probe", t, GoProbeDir(S)) :
        t \in {"fx-module", "utility"}, S \in GoProbeSets}
    \cup {Pkg("acme/probe", t, EdgeGoDir(n)) :
            t \in {"fx-module", "utility"}, n \in 1..Len(EdgeGoContents)}
    \cup {Pkg("acme/probe", "utility", DocProbeDir(q[1], q[2])) : q \in DocProbes}

PkgValues ==
    {PkgCache, PkgHttp, PkgSecret, PkgNoDecl, PkgEmptyDir, PkgFileAsDir,
     PkgBroken, PkgMissingDir, NullPkg, PkgNumVersion, PkgNumName,
     PkgNoNameVersion, PkgOddFormats}

\* every package with each required field absent, empty or set
FieldChoices(valid) == {Undefined, Str(""), Str(valid)}
WidePkgs ==
    {[k |-> "object", name |-> f1, title |-> f2, description |-> f3,
      type |-> f4, templates |-> f5, version |-> f6,
      tags |-> Undefined, dependencies |-> Undefined] :
        f1 \in FieldChoices("acme/cache"), f2 \in FieldChoices("Title"),
        f3 \in FieldChoices("About"), f4 \in FieldChoices("fx-module"),
        f5 \in FieldChoices("templates/cache"),
        f6 \in FieldChoices("v1.0.0")}

\* the packages value of a document: an array with its items
ArrOf(items) == [k |-> "array", s |-> "", n |-> 0, items |-> items]
NotArr(v) == [k |-> v.k, s |-> v.s, n |-> v.n, items |-> <<>>]

\* what reading and yaml.load-ing meta.yaml gives: no file ("ENOENT"), a
\* syntax error ("YAMLException"), an empty document ("undefined") or a
\* mapping ("object")
Meta(kind, version, author, license, packages) ==
    [k |-> kind, version |-> version,
     repository |-> Str("https://github.com/acme/vpkg"),
     author |-> author, license |-> license, packages |-> packages]
Catalog(items) == Meta("object", Str("3.0"), Str("Acme"), Str("MIT"), ArrOf(items))

Catalogs ==
    UNION {[1..n -> PkgValues] : n \in 1..MaxPkgs}

\* documents with each top-level field absent, empty or set
WideMetas ==
    {[k |-> "object", version |-> f1, repository |-> f2, author |-> f3,
      license |-> f4, packages |-> f5] :
        f1 \in FieldChoices("3.0"),
        f2 \in FieldChoices("https://github.com/acme/vpkg"),
        f3 \in FieldChoices("Acme"), f4 \in FieldChoices("MIT"),
        f5 \in {NotArr(Undefined), NotArr(Null), ArrOf(<<>>), ArrOf(<<PkgCache>>)}}

MetaInputs ==
    {Catalog(c) : c \in Catalogs}
    \cup {Catalog(<<p>>) : p \in WidePkgs}
    \cup {Catalog(<<p>>) :
            p \in OptionalPkgs \cup AdvisoryPkgs \cup ProbePkgs \cup {PkgCacheStatic, PkgCachePub}}
    \cup WideMetas
    \cup {Meta("ENOENT", Undefined, Undefined, Undefined, NotArr(Undefined)),
          Meta("YAMLException", Undefined, Undefined, Undefined, NotArr(Undefined)),
          Meta("undefined", Undefined, Undefined, Undefined, NotArr(Undefined)),
          Meta("object", Str("3"), Str("Acme"), Str("MIT"), ArrOf(<<PkgCache>>)),
          Meta("object", Num(3), Str("Acme"), Str("MIT"), ArrOf(<<PkgCache>>)),
          Meta("object", Str("3.0"), Undefined, Str(""), ArrOf(<<PkgCache>>)),
          Meta("object", Undefined, Str("Acme"), Str("MIT"), NotArr(Undefined)),
          Meta("object", Str("3.0"), Str("Acme"), Str("MIT"), NotArr(Str("none"))),
          Meta("object", Str("3.0"), Str("Acme"), Str("MIT"), ArrOf(<<>>))}

(***************************************************************************)
(* PackageValidator.  A validator value v is the three lists of the        *)
(* constructor; an operation that can throw returns [v, threw, message].   *)
(***************************************************************************)
\* constructor
NewValidator == [errors |-> <<>>, warnings |-> <<>>, info |-> <<>>]

\* log that does not push a message the list already holds
log_skipsDuplicates(v, level, message) ==
    CASE level = "error" /\ \A t \in 1..Len(v.errors) : v.errors[t] # message
           -> [v EXCEPT !.errors = Append(@, message)]
      [] level = "warning" /\ \A t \in 1..Len(v.warnings) : v.warnings[t] # message
           -> [v EXCEPT !.warnings = Append(@, message)]
      [] level = "info" /\ \A t \in 1..Len(v.info) : v.info[t] # message
           -> [v EXCEPT !.info = Append(@, message)]
      [] OTHER -> v

log(v, level, message) ==
    CASE level = "error" -> [v EXCEPT !.errors = Append(@, message)]
      [] level = "warning" -> [v EXCEPT !.warnings = Append(@, message)]
      [] level = "info" -> [v EXCEPT !.info = Append(@, message)]
      [] level = "success" -> v
      [] OTHER -> v

Returned(v) == [v |-> v, threw |-> FALSE, message |-> ""]
Thrown(v, message) == [v |-> v, threw |-> TRUE, message |-> message]

\* MissingPackageFields stopping at the first missing field
RECURSIVE MissingPackageFields_firstOnly(_, _, _, _)
MissingPackageFields_firstOnly(v, pkg, index, i) ==
    IF i > Len(requiredPackageFields) THEN v
    ELSE LET field == requiredPackageFields[i]
         IN  IF ~Truthy(pkg[field])
             THEN log(v, "error",
                      "Package " \o ToString(index + 1)
                      \o ": Missing required field: " \o field)
             ELSE MissingPackageFields_firstOnly(v, pkg, index, i + 1)

\* for (const field of requiredPackageFields) if (!pkg[field]) log error
RECURSIVE MissingPackageFields(_, _, _, _)
MissingPackageFields(v, pkg, index, i) ==
    IF i > Len(requiredPackageFields) THEN v
    ELSE LET field == requiredPackageFields[i]
             v1 == IF ~Truthy(pkg[field])
                   THEN log(v, "error",
                            "Package " \o ToString(index + 1)
                            \o ": Missing required field: " \o field)
                   ELSE v
         IN  MissingPackageFields(v1, pkg, index, i + 1)

\* PackageContext numbering the packages from 0
PackageContext_zeroBased(pkg, index) ==
    "Validating package " \o ToString(index) \o ": "
    \o (IF Truthy(pkg.name) THEN ToStr(pkg.name) ELSE "unnamed")

\* the info line that opens the validation of package index + 1
PackageContext(pkg, index) ==
    "Validating package " \o ToString(index + 1) \o ": "
    \o (IF Truthy(pkg.name) THEN ToStr(pkg.name) ELSE "unnamed")

validatePackageDefinition(v, pkg, index) ==
    IF pkg.k = "null"
    THEN Thrown(v, "Cannot read properties of null (reading 'name')")
    ELSE
    LET p == "Package " \o ToString(index + 1) \o ": "
        v1 == log(v, "info", PackageContext(pkg, index))
        v2 == MissingPackageFields(v1, pkg, index, 1)
        \* pkg.name.match exists on strings only
        nameThrows == Truthy(pkg.name) /\ pkg.name.k # "string"
        v3 == IF Truthy(pkg.name) /\ ~nameThrows
                 /\ ~MatchesNameFormat(pkg.name.s)
              THEN log(v2, "error",
                       p \o "Invalid name format. Should be 'org/package-name', found: "
                       \o ToStr(pkg.name))
              ELSE v2
        v4 == IF Truthy(pkg.type)
                 /\ ~(\E t \in 1..Len(validTypes) :
                        pkg.type.k = "string" /\ validTypes[t] = pkg.type.s)
              THEN log(v3, "warning",
                       p \o "Unknown type '" \o ToStr(pkg.type)
                       \o "'. Valid types: " \o validTypesJoined)
              ELSE v3
        versionThrows == Truthy(pkg.version) /\ pkg.version.k # "string"
        v5 == IF Truthy(pkg.version) /\ ~versionThrows
                 /\ ~MatchesSemver(pkg.version.s)
              THEN log(v4, "warning",
                       p \o "Version should follow semantic versioning (e.g., 'v1.0.0'), found: "
                       \o ToStr(pkg.version))
              ELSE v4
        v6 == IF Truthy(pkg.templates) /\ ~ExistsSync(pkg.templates)
              THEN log(v5, "error",
                       p \o "Templates directory not found: "
                       \o ToStr(pkg.templates))
              ELSE v5
        v7 == IF Truthy(pkg.tags) /\ ~IsArray(pkg.tags)
              THEN log(v6, "error", p \o "tags field must be an array")
              ELSE v6
        v8 == IF Truthy(pkg.dependencies) /\ ~IsArray(pkg.dependencies)
              THEN log(v7, "error", p \o "dependencies field must be an array")
              ELSE v7
    IN  IF nameThrows THEN Thrown(v2, "pkg.name.match is not a function")
        ELSE IF versionThrows
             THEN Thrown(v4, "pkg.version.match is not a function")
             ELSE Returned(v8)

\* findTemplateFiles: [threw, message, files]
RECURSIVE findTemplateFiles(_)
RECURSIVE FindInItems(_, _, _, _)
FindInItems(dir, items, i, files) ==
    IF i > Len(items)
    THEN [threw |-> FALSE, message |-> "", files |-> files]
    ELSE LET item == items[i]
             itemPath == PathJoin(dir, item)
         IN  IF itemPath \in DanglingEntries
             THEN [threw |-> TRUE,
                   message |-> "ENOENT: no such file or directory, stat '"
                               \o itemPath \o "'",
                   files |-> <<>>]
             ELSE IF IsDirectory(itemPath)
             THEN LET sub == findTemplateFiles(itemPath)
                  IN  IF sub.threw THEN sub
                      ELSE FindInItems(dir, items, i + 1, files \o sub.files)
             ELSE IF EndsWith(item, ".tmpl")
             THEN FindInItems(dir, items, i + 1, Append(files, itemPath))
             ELSE FindInItems(dir, items, i + 1, files)

findTemplateFiles(dir) ==
    IF ~ExistsSync(Str(dir))
    THEN [threw |-> FALSE, message |-> "", files |-> <<>>]
    ELSE IF ~IsDirectory(dir)
    THEN [threw |-> TRUE,
          message |-> "ENOTDIR: not a directory, scandir '" \o dir \o "'",
          files |-> <<>>]
    ELSE FindInItems(dir, DirEntries[dir], 1, <<>>)

\* functionMatches.forEach(match => ...)
RECURSIVE CheckFunctionDocs(_, _, _, _, _)
CheckFunctionDocs(v, filePath, content, functionMatches, i) ==
    IF i > Len(functionMatches) THEN v
    ELSE LET funcName == ReplaceFuncPrefix(functionMatches[i])
             v1 == IF IsOwnUpperCase(CharAt(funcName, 1))
                      /\ ~MatchesDocComment(content, funcName)
                   THEN log(v, "warning",
                            filePath \o ": Public function " \o funcName
                            \o " missing documentation comment")
                   ELSE v
         IN  CheckFunctionDocs(v1, filePath, content, functionMatches, i + 1)

\* validateGoTemplate that logs the missing declaration and goes on
validateGoTemplate_noEarlyReturn(v, filePath, content, pkg) ==
    LET v0 == IF ~MatchesPackageDecl(content)
              THEN log(v, "error", filePath \o ": Missing package declaration")
              ELSE v
        isFx == pkg.type.k = "string" /\ pkg.type.s = "fx-module"
        v1 == IF isFx /\ ~Includes(content, "go.uber.org/fx")
              THEN log(v0, "warning",
                       filePath \o ": fx-module should import go.uber.org/fx")
              ELSE v0
        v2 == IF isFx /\ ~Includes(content, "var Module")
                 /\ ~Includes(content, "func NewModule")
              THEN log(v1, "warning",
                       filePath \o ": fx-module should export Module or NewModule function")
              ELSE v1
        v3 == CheckFunctionDocs(v2, filePath, content,
                                FuncMatchesFrom(content, 1), 1)
    IN  [v |-> v3, ret |-> TRUE]

\* validateGoTemplate: [v, ret]
validateGoTemplate(v, filePath, content, pkg) ==
    IF ~MatchesPackageDecl(content)
    THEN [v |-> log(v, "error", filePath \o ": Missing package declaration"),
          ret |-> FALSE]
    ELSE
    LET isFx == pkg.type.k = "string" /\ pkg.type.s = "fx-module"
        v1 == IF isFx /\ ~Includes(content, "go.uber.org/fx")
              THEN log(v, "warning",
                       filePath \o ": fx-module should import go.uber.org/fx")
              ELSE v
        v2 == IF isFx /\ ~Includes(content, "var Module")
                 /\ ~Includes(content, "func NewModule")
              THEN log(v1, "warning",
                       filePath \o ": fx-module should export Module or NewModule function")
              ELSE v1
        v3 == CheckFunctionDocs(v2, filePath, content,
                                FuncMatchesFrom(content, 1), 1)
        v4 == log(v3, "success", filePath \o ": Go template validation passed")
    IN  [v |-> v4, ret |-> TRUE]

\* validateReadmeTemplate looking for second- and third-level headings only
validateReadmeTemplate_subheadingsOnly(v, filePath, content, pkg) ==
    LET hasHeadings == \E h \in {"##", "###"} : Includes(content, h)
        v1 == IF ~hasHeadings
              THEN log(v, "warning", filePath \o ": No markdown headings found")
              ELSE v
        v2 == IF ~Includes(ToLowerCase(content), "install")
              THEN log(v1, "warning",
                       filePath \o ": No installation instructions found")
              ELSE v1
        v3 == IF ~Includes(content, "~~~")
              THEN log(v2, "warning", filePath \o ": No code examples found")
              ELSE v2
    IN  [v |-> v3, ret |-> TRUE]

\* the code-fence marker of line 315: three back-quotes.  A TLA+ string
\* cannot hold a back-quote, so "~" stands for that character in contents.
CodeFence == "~~~"

\* validateReadmeTemplate: [v, ret]
validateReadmeTemplate(v, filePath, content, pkg) ==
    LET hasHeadings == \E h \in {"#", "##", "###"} : Includes(content, h)
        v1 == IF ~hasHeadings
              THEN log(v, "warning", filePath \o ": No markdown headings found")
              ELSE v
        v2 == IF ~Includes(ToLowerCase(content), "install")
              THEN log(v1, "warning",
                       filePath \o ": No installation instructions found")
              ELSE v1
        v3 == IF ~Includes(content, CodeFence)
              THEN log(v2, "warning", filePath \o ": No code examples found")
              ELSE v2
        v4 == log(v3, "success", filePath \o ": README template validation passed")
    IN  [v |-> v4, ret |-> TRUE]

\* files fs.readFileSync cannot read
UnreadableFiles == {}

\* validateTemplateFile dispatching on the file name before it looks for
\* substitution markers
validateTemplateFile_dispatchFirst(v, filePath, pkg) ==
    LET v0 == log(v, "info", "Validating template: " \o filePath)
    IN  IF filePath \in UnreadableFiles \/ filePath \notin DOMAIN FileContents
        THEN [v |-> log(v0, "error",
                        "Failed to read template file " \o filePath
                        \o ": EACCES: permission denied, open '" \o filePath \o "'"),
              ret |-> FALSE]
        ELSE
        LET content == FileContents[filePath]
            hasTemplateVars == Includes(content, "{{") /\ Includes(content, "}}")
        IN  IF EndsWith(filePath, ".go.tmpl")
            THEN validateGoTemplate(v0, filePath, content, pkg)
            ELSE IF Includes(filePath, "README") \/ Includes(filePath, "readme")
            THEN validateReadmeTemplate(v0, filePath, content, pkg)
            ELSE [v |-> IF ~hasTemplateVars
                        THEN log(v0, "warning",
                                 filePath \o ": No template variables found (might be a static file)")
                        ELSE v0,
                  ret |-> TRUE]

\* validateTemplateFile: [v, ret]
validateTemplateFile(v, filePath, pkg) ==
    LET v0 == log(v, "info", "Validating template: " \o filePath)
    IN  IF filePath \in UnreadableFiles \/ filePath \notin DOMAIN FileContents
        THEN [v |-> log(v0, "error",
                        "Failed to read template file " \o filePath
                        \o ": EACCES: permission denied, open '" \o filePath \o "'"),
              ret |-> FALSE]
        ELSE
        LET content == FileContents[filePath]
            hasTemplateVars == Includes(content, "{{") /\ Includes(content, "}}")
            v1 == IF ~hasTemplateVars
                  THEN log(v0, "warning",
                           filePath \o ": No template variables found (might be a static file)")
                  ELSE v0
            usedVars == {n \in 1..Len(commonVars) :
                            Includes(content, "{{." \o commonVars[n] \o "}}")}
            v2 == IF usedVars # {}
                  THEN log(v1, "success", filePath \o ": Uses template variables")
                  ELSE v1
        IN  IF EndsWith(filePath, ".go.tmpl")
            THEN validateGoTemplate(v2, filePath, content, pkg)
            ELSE IF Includes(filePath, "README") \/ Includes(filePath, "readme")
            THEN validateReadmeTemplate(v2, filePath, content, pkg)
            ELSE [v |-> v2, ret |-> TRUE]

\* MissingMetaFields stopping at the first missing field
RECURSIVE MissingMetaFields_firstOnly(_, _, _)
MissingMetaFields_firstOnly(v, m, i) ==
    IF i > Len(requiredFields) THEN v
    ELSE LET field == requiredFields[i]
         IN  IF ~Truthy(m[field])
             THEN log(v, "error",
                      "Missing required field in meta.yaml: " \o field)
             ELSE MissingMetaFields_firstOnly(v, m, i + 1)

\* for (const field of requiredFields) if (!meta[field]) log error
RECURSIVE MissingMetaFields(_, _, _)
MissingMetaFields(v, m, i) ==
    IF i > Len(requiredFields) THEN v
    ELSE LET field == requiredFields[i]
             v1 == IF ~Truthy(m[field])
                   THEN log(v, "error",
                            "Missing required field in meta.yaml: " \o field)
                   ELSE v
         IN  MissingMetaFields(v1, m, i + 1)

\* the catch block of validateMetaYaml
CatchMetaYaml(v, message) ==
    log(v, "error", "Failed to parse meta.yaml: " \o message)

\* MetaNotFound without its return: the read of line 62 then throws
MetaNotFound_noReturn(v) ==
    [v |-> CatchMetaYaml(log(v, "error", "meta.yaml file not found"),
                         "ENOENT: no such file or directory, open 'meta.yaml'"),
     proceed |-> FALSE]

\* lines 56-59: meta.yaml does not exist
MetaNotFound(v) ==
    [v |-> log(v, "error", "meta.yaml file not found"), proceed |-> FALSE]

\* validateMetaYaml up to the loop over the packages: [v, proceed], where
\* proceed is false when the method has returned false
validateMetaYamlHead(v, m) ==
    LET v0 == log(v, "info", "Validating meta.yaml...")
    IN  IF m.k = "ENOENT"
        THEN MetaNotFound(v0)
        ELSE IF m.k = "YAMLException"
        THEN [v |-> CatchMetaYaml(v0, "bad indentation of a mapping entry"),
              proceed |-> FALSE]
        ELSE IF m.k # "object"
        THEN [v |-> CatchMetaYaml(v0,
                        "Cannot read properties of undefined (reading 'version')"),
              proceed |-> FALSE]
        ELSE
        LET v1 == MissingMetaFields(v0, m, 1)
            versionThrows == Truthy(m.version) /\ m.version.k # "string"
            v2 == IF Truthy(m.version) /\ ~versionThrows
                     /\ ~MatchesMetaVersion(m.version.s)
                  THEN log(v1, "warning",
                           "Version format should be X.Y (e.g., \"3.0\"), found: "
                           \o ToStr(m.version))
                  ELSE v1
        IN  IF versionThrows
            THEN [v |-> CatchMetaYaml(v1, "meta.version.match is not a function"),
                  proceed |-> FALSE]
            ELSE IF ~IsArray(m.packages)
            THEN [v |-> log(v2, "error", "packages field must be an array"),
                  proceed |-> FALSE]
            ELSE IF Len(m.packages.items) = 0
            THEN [v |-> log(v2, "error", "packages array cannot be empty"),
                  proceed |-> FALSE]
            ELSE [v |-> v2, proceed |-> TRUE]

\* generateReport with a verdict that warnings fail too
generateReport_warningsFail(v) ==
    [printed |-> TRUE,
     passed |-> Len(v.info),
     warningCount |-> Len(v.warnings),
     errorCount |-> Len(v.errors),
     warningLines |-> v.warnings,
     errorLines |-> v.errors,
     isValid |-> (Len(v.errors) = 0 /\ Len(v.warnings) = 0)]

\* generateReport printing the newest finding first
generateReport_newestFirst(v) ==
    [printed |-> TRUE,
     passed |-> Len(v.info),
     warningCount |-> Len(v.warnings),
     errorCount |-> Len(v.errors),
     warningLines |-> [t \in 1..Len(v.warnings) |->
                          v.warnings[Len(v.warnings) + 1 - t]],
     errorLines |-> [t \in 1..Len(v.errors) |->
                        v.errors[Len(v.errors) + 1 - t]],
     isValid |-> (Len(v.errors) = 0)]

\* generateReport: the counts, the two printed lists and the verdict
generateReport(v) ==
    [printed |-> TRUE,
     passed |-> Len(v.info),
     warningCount |-> Len(v.warnings),
     errorCount |-> Len(v.errors),
     warningLines |-> v.warnings,
     errorLines |-> v.errors,
     isValid |-> (Len(v.errors) = 0)]

NoReport ==
    [printed |-> FALSE, passed |-> 0, warningCount |-> 0, errorCount |-> 0,
     warningLines |-> <<>>, errorLines |-> <<>>, isValid |-> FALSE]

(***************************************************************************)
(* The run: main constructs a validator, validate() calls                  *)
(* validateMetaYaml, then validateTemplates when it returned true, then    *)
(* generateReport, and main exits with the verdict.                        *)
(***************************************************************************)
VARIABLES
    meta,           \* what meta.yaml holds (never changes)
    errors, warnings, info,     \* this.errors, this.warnings, this.info
    pc,             \* where the run is
    index,          \* forEach index over meta.packages (0-based)
    templateFiles,  \* validatePackageTemplates: the files found
    filePos,        \* validatePackageTemplates: the next file (1-based)
    pkgAllValid,    \* validatePackageTemplates: allValid
    allValid,       \* validateTemplates: allValid
    metaValid,      \* validate: metaValid
    report,         \* what generateReport printed and returned
    exitCode,       \* process.exit status, -1 while running
    invoked,        \* history: the calls made during this run
    returns,        \* history: the calls that returned, with their result
    errCtx, warnCtx,    \* history: where each error / warning was appended
    run,            \* number of the current run
    previous        \* findings and report of the run before

vars ==
    <<meta, errors, warnings, info, pc, index, templateFiles, filePos,
      pkgAllValid, allValid, metaValid, report, exitCode, invoked, returns,
      errCtx, warnCtx, run, previous>>

this == [errors |-> errors, warnings |-> warnings, info |-> info]

\* the lists become those of v; every entry appended is tagged with the
\* phase and the package (1-based, 0 for none) it was appended for
SetValidator(v, phase, pkgNo) ==
    /\ errors' = v.errors
    /\ warnings' = v.warnings
    /\ info' = v.info
    /\ errCtx' = errCtx \o [t \in 1..(Len(v.errors) - Len(errors)) |->
                               [phase |-> phase, pkg |-> pkgNo]]
    /\ warnCtx' = warnCtx \o [t \in 1..(Len(v.warnings) - Len(warnings)) |->
                                 [phase |-> phase, pkg |-> pkgNo]]

Call(fn, pkgNo, path) == [fn |-> fn, pkg |-> pkgNo, path |-> path]

\* a call that returned ret after appending so many errors
Ret(fn, pkgNo, path, ret, appended) ==
    [fn |-> fn, pkg |-> pkgNo, path |-> path, ret |-> ret, appended |-> appended]

\* the errors appended in a phase / in a phase for one package
CountPhase(ctx, phase) ==
    Cardinality({t \in 1..Len(ctx) : ctx[t].phase = phase})
CountPkg(ctx, phase, pkgNo) ==
    Cardinality({t \in 1..Len(ctx) : ctx[t].phase = phase /\ ctx[t].pkg = pkgNo})

\* main line 393 with the status 0 whatever the verdict
ExitStatus_alwaysZero(isValid) == 0

\* main line 393: isValid ? 0 : 1
ExitStatus(isValid) == IF isValid THEN 0 ELSE 1

NoRun == [errors |-> <<>>, warnings |-> <<>>, info |-> <<>>, report |-> NoReport]

\* main starts at the check of lines 382-388; with js-yaml installed the
\* run goes on to validate(), without it the process ends there whatever
\* meta.yaml holds
Init ==
    /\ \/ meta \in MetaInputs /\ pc = "validateMetaYaml"
       \/ meta = Catalog(<<PkgCache>>) /\ pc = "requireFailed"
    /\ errors = NewValidator.errors
    /\ warnings = NewValidator.warnings
    /\ info = NewValidator.info
    /\ index = 0
    /\ templateFiles = <<>>
    /\ filePos = 1
    /\ pkgAllValid = TRUE
    /\ allValid = TRUE
    /\ metaValid = FALSE
    /\ report = NoReport
    /\ exitCode = -1
    /\ invoked = {}
    /\ returns = {}
    /\ errCtx = <<>>
    /\ warnCtx = <<>>
    /\ run = 1
    /\ previous = NoRun

\* validate, lines 367 and 53-87: validateMetaYaml up to the forEach
ValidateMetaYaml ==
    /\ pc = "validateMetaYaml"
    /\ LET r == validateMetaYamlHead(this, meta)
       IN  /\ SetValidator(r.v, "meta", 0)
           /\ pc' = IF r.proceed THEN "forEachPackage" ELSE "generateReport"
           /\ returns' = IF r.proceed THEN returns
                         ELSE returns \cup
                              {Ret("validateMetaYaml", 0, "", FALSE, Len(errors'))}
    /\ index' = 0
    /\ metaValid' = FALSE
    /\ UNCHANGED <<meta, templateFiles, filePos, pkgAllValid, allValid,
                   report, exitCode, invoked, run, previous>>

\* lines 90-100: one iteration of meta.packages.forEach; an exception ends
\* the loop in the catch block, the last iteration returns true
ValidatePackageDefinition ==
    /\ pc = "forEachPackage"
    /\ index < Len(meta.packages.items)
    /\ LET pkg == meta.packages.items[index + 1]
           r == validatePackageDefinition(this, pkg, index)
           last == index + 1 = Len(meta.packages.items)
       IN  /\ invoked' = invoked \cup
                  {Call("validatePackageDefinition", index + 1, "")}
           /\ IF r.threw
              THEN /\ SetValidator(CatchMetaYaml(r.v, r.message), "meta", index + 1)
                   /\ metaValid' = FALSE
                   /\ pc' = "generateReport"
                   /\ index' = index
                   /\ returns' = returns \cup
                          {Ret("validateMetaYaml", 0, "", FALSE, Len(errors'))}
              ELSE /\ SetValidator(
                          IF last
                          THEN log(r.v, "success", "meta.yaml structure is valid")
                          ELSE r.v, "meta", index + 1)
                   /\ metaValid' = last
                   /\ pc' = IF last THEN "validateTemplates" ELSE pc
                   /\ index' = IF last THEN 0 ELSE index + 1
                   /\ returns' = IF last
                                 THEN returns \cup
                                      {Ret("validateMetaYaml", 0, "", TRUE, Len(errors'))}
                                 ELSE returns
    /\ UNCHANGED <<meta, templateFiles, filePos, pkgAllValid, allValid,
                   report, exitCode, run, previous>>

\* the catch block of validateTemplates
CatchTemplates(v, message) ==
    log(v, "error", "Failed to validate templates: " \o message)

\* validateTemplates returned ret
TemplatesReturn(ret, ctx) ==
    Ret("validateTemplates", 0, "", ret, CountPhase(ctx, "templates"))

\* validatePackageTemplates returned ret for package pkgNo
PackageTemplatesReturn(pkgNo, ret, ctx) ==
    Ret("validatePackageTemplates", pkgNo, "", ret, CountPkg(ctx, "templates", pkgNo))

\* validate line 370-371 and validateTemplates lines 147-159
ValidateTemplates ==
    /\ pc = "validateTemplates"
    /\ metaValid
    /\ LET v0 == log(this, "info", "Validating template files...")
       IN  IF meta.k = "ENOENT"
           THEN /\ SetValidator(log(v0, "error",
                        "meta.yaml not found, cannot validate templates"),
                        "templates", 0)
                /\ allValid' = FALSE
                /\ pc' = "generateReport"
                /\ returns' = returns \cup {TemplatesReturn(FALSE, errCtx')}
           ELSE /\ SetValidator(v0, "templates", 0)
                /\ allValid' = TRUE
                /\ pc' = "forEachTemplates"
                /\ UNCHANGED returns
    /\ index' = 0
    /\ UNCHANGED <<meta, templateFiles, filePos, pkgAllValid, metaValid,
                   report, exitCode, invoked, run, previous>>

\* after the callback of line 161 has handled package index + 1: the next
\* package, or return allValid
NextTemplatesPc == 
    IF index + 1 = Len(meta.packages.items)
    THEN "generateReport" ELSE "forEachTemplates"

\* lines 161-166 and 177-190: one iteration of the forEach of
\* validateTemplates, up to the loop over the files found
ValidatePackageTemplates ==
    /\ pc = "forEachTemplates"
    /\ index < Len(meta.packages.items)
    /\ LET pkg == meta.packages.items[index + 1]
       IN  IF pkg.k = "null"
           THEN /\ SetValidator(CatchTemplates(this,
                        "Cannot read properties of null (reading 'templates')"),
                        "templates", index + 1)
                /\ allValid' = FALSE
                /\ pc' = "generateReport"
                /\ returns' = returns \cup {TemplatesReturn(FALSE, errCtx')}
                /\ UNCHANGED <<index, templateFiles, filePos, pkgAllValid, invoked>>
           ELSE IF ~(Truthy(pkg.templates) /\ ExistsSync(pkg.templates))
           THEN /\ pc' = NextTemplatesPc
                /\ index' = index + 1
                /\ returns' = IF NextTemplatesPc = "generateReport"
                              THEN returns \cup {TemplatesReturn(allValid, errCtx)}
                              ELSE returns
                /\ UNCHANGED <<errors, warnings, info, errCtx, warnCtx, allValid,
                               templateFiles, filePos, pkgAllValid, invoked>>
           ELSE
           LET v0 == log(this, "info",
                         "Validating templates for package: " \o ToStr(pkg.name))
               templatesDir == pkg.templates.s
               found == findTemplateFiles(templatesDir)
           IN  /\ invoked' = invoked \cup
                      {Call("validatePackageTemplates", index + 1, ""),
                       Call("findTemplateFiles", index + 1, templatesDir)}
               /\ IF found.threw
                  THEN /\ SetValidator(CatchTemplates(v0, found.message),
                                       "templates", index + 1)
                       /\ allValid' = FALSE
                       /\ pc' = "generateReport"
                       /\ returns' = returns \cup {TemplatesReturn(FALSE, errCtx')}
                       /\ UNCHANGED <<index, templateFiles, filePos, pkgAllValid>>
                  ELSE IF Len(found.files) = 0
                  THEN /\ SetValidator(log(v0, "error",
                               "Package " \o ToString(index + 1)
                               \o ": No template files found in " \o templatesDir),
                               "templates", index + 1)
                       /\ allValid' = FALSE
                       /\ pc' = NextTemplatesPc
                       /\ index' = index + 1
                       /\ returns' = returns
                              \cup {PackageTemplatesReturn(index + 1, FALSE, errCtx')}
                              \cup (IF NextTemplatesPc = "generateReport"
                                    THEN {TemplatesReturn(FALSE, errCtx')} ELSE {})
                       /\ UNCHANGED <<templateFiles, filePos, pkgAllValid>>
                  ELSE /\ SetValidator(log(v0, "success",
                               "Found " \o ToString(Len(found.files))
                               \o " template files for " \o ToStr(pkg.name)),
                               "templates", index + 1)
                       /\ templateFiles' = found.files
                       /\ filePos' = 1
                       /\ pkgAllValid' = TRUE
                       /\ pc' = "forEachFile"
                       /\ UNCHANGED <<index, allValid, returns>>
    /\ UNCHANGED <<meta, metaValid, report, exitCode, run, previous>>

\* lines 192-197 and 163-164: one iteration of templateFiles.forEach; after
\* the last file validatePackageTemplates returns allValid
ValidateTemplateFile ==
    /\ pc = "forEachFile"
    /\ filePos <= Len(templateFiles)
    /\ LET pkg == meta.packages.items[index + 1]
           filePath == templateFiles[filePos]
           r == validateTemplateFile(this, filePath, pkg)
           last == filePos = Len(templateFiles)
           isValid == pkgAllValid /\ r.ret
       IN  /\ SetValidator(r.v, "templates", index + 1)
           /\ invoked' = invoked \cup
                  {Call("validateTemplateFile", index + 1, filePath)}
           /\ pkgAllValid' = isValid
           /\ filePos' = filePos + 1
           /\ allValid' = IF last THEN allValid /\ isValid ELSE allValid
           /\ pc' = IF last THEN NextTemplatesPc ELSE pc
           /\ index' = IF last THEN index + 1 ELSE index
           /\ returns' = returns
                  \cup {Ret("validateTemplateFile", index + 1, filePath, r.ret,
                            Len(r.v.errors) - Len(errors))}
                  \cup (IF last
                        THEN {PackageTemplatesReturn(index + 1, isValid, errCtx')}
                        ELSE {})
                  \cup (IF last /\ NextTemplatesPc = "generateReport"
                        THEN {TemplatesReturn(allValid /\ isValid, errCtx')}
                        ELSE {})
    /\ UNCHANGED <<meta, templateFiles, metaValid, report, exitCode, run,
                   previous>>

\* validate line 375 and generateReport
GenerateReport ==
    /\ pc = "generateReport"
    /\ report' = generateReport(this)
    /\ pc' = "exit"
    /\ UNCHANGED <<meta, errors, warnings, info, index, templateFiles, filePos,
                   pkgAllValid, allValid, metaValid, exitCode, invoked, returns,
                   errCtx, warnCtx, run, previous>>

\* main lines 391-393: process.exit(isValid ? 0 : 1)
Exit ==
    /\ pc = "exit"
    /\ exitCode' = ExitStatus(report.isValid)
    /\ pc' = "done"
    /\ UNCHANGED <<meta, errors, warnings, info, index, templateFiles, filePos,
                   pkgAllValid, allValid, metaValid, report, invoked, returns,
                   errCtx, warnCtx, run, previous>>

\* main lines 382-388: require('js-yaml') throws, process.exit(1) before a
\* validator is constructed
RequireFailed ==
    /\ pc = "requireFailed"
    /\ exitCode' = 1
    /\ pc' = "aborted"
    /\ UNCHANGED <<meta, errors, warnings, info, index, templateFiles, filePos,
                   pkgAllValid, allValid, metaValid, report, invoked, returns,
                   errCtx, warnCtx, run, previous>>

\* the validator is started again on the same meta.yaml and file tree:
\* main, line 390, constructs a new PackageValidator
Rerun ==
    /\ pc = "done"
    /\ run < MaxRuns
    /\ previous' = [errors |-> errors, warnings |-> warnings, info |-> info,
                    report |-> report]
    /\ run' = run + 1
    /\ errors' = NewValidator.errors
    /\ warnings' = NewValidator.warnings
    /\ info' = NewValidator.info
    /\ pc' = "validateMetaYaml"
    /\ index' = 0
    /\ templateFiles' = <<>>
    /\ filePos' = 1
    /\ pkgAllValid' = TRUE
    /\ allValid' = TRUE
    /\ metaValid' = FALSE
    /\ report' = NoReport
    /\ exitCode' = -1
    /\ invoked' = {}
    /\ returns' = {}
    /\ errCtx' = <<>>
    /\ warnCtx' = <<>>
    /\ UNCHANGED meta

Next ==
    \/ ValidateMetaYaml
    \/ ValidatePackageDefinition
    \/ ValidateTemplates
    \/ ValidatePackageTemplates
    \/ ValidateTemplateFile
    \/ GenerateReport
    \/ Exit
    \/ RequireFailed
    \/ Rerun

Spec == Init /\ [][Next]_vars

(***************************************************************************)
(* Vocabulary of the properties.                                           *)
(***************************************************************************)
Items == meta.packages.items

StartsWith(s, prefix) ==
    Len(s) >= Len(prefix) /\ SubSeq(s, 1, Len(prefix)) = prefix

CountEq(list, message) ==
    Cardinality({t \in 1..Len(list) : list[t] = message})

CountPrefix(list, prefix) ==
    Cardinality({t \in 1..Len(list) : StartsWith(list[t], prefix)})

Listed(list, message) == \E t \in 1..Len(list) : list[t] = message

PackagePrefix(i) == "Package " \o ToString(i) \o ": "

DefinitionInvoked(i) == Call("validatePackageDefinition", i, "") \in invoked

\* package entry p declares a templates path that is a directory on disk
HasTemplatesDir(p) ==
    p.k = "object" /\ p.templates.k = "string" /\ IsDirectory(p.templates.s)

\* the templates of package j were discovered and every template file of
\* its directory was checked
DiscoveredAndChecked(j) ==
    LET dir == Items[j].templates.s
        found == findTemplateFiles(dir)
    IN  /\ Call("findTemplateFiles", j, dir) \in invoked
        /\ \A t \in 1..Len(found.files) :
               Call("validateTemplateFile", j, found.files[t]) \in invoked

\* the directory of package j can be walked without a failure
Walkable(j) == ~findTemplateFiles(Items[j].templates.s).threw

(***************************************************************************)
(* C1: once the report is generated, the verdict is pass if and only if    *)
(* the list of errors is empty, whatever the warnings and the info lines.  *)
(***************************************************************************)
C1_VerdictIffNoErrors ==
    report.printed => (report.isValid <=> Len(errors) = 0)

C1_PassWithWarnings ==
    report.printed /\ report.isValid /\ Len(warnings) > 0 /\ Len(info) > 0

(***************************************************************************)
(* C2: at the end of a run, every template file that was checked and whose *)
(* content holds a hardcoded-secret assignment (password = "...",          *)
(* token = "...") has an error naming it, and the verdict is fail.         *)
(***************************************************************************)
HasHardcodedSecret(content) ==
    \E word \in {"password", "token", "key"} :
        Includes(ToLowerCase(content), word \o " = \"")

C2_SecretIsAnError ==
    pc = "done" =>
        \A c \in invoked :
            (c.fn = "validateTemplateFile"
                /\ HasHardcodedSecret(FileContents[c.path]))
            => /\ \E t \in 1..Len(errors) : Includes(errors[t], c.path)
               /\ ~report.isValid

(***************************************************************************)
(* C3: once the loop over a non-empty packages array has started, no       *)
(* exception ends it: at the end of the run validatePackageDefinition has  *)
(* been invoked for every entry and no parse failure was recorded.         *)
(***************************************************************************)
C3_EveryEntryValidated ==
    (pc = "done" /\ DefinitionInvoked(1)) =>
        /\ \A i \in 1..Len(Items) : DefinitionInvoked(i)
        /\ \A t \in 1..Len(errors) :
               ~StartsWith(errors[t], "Failed to parse meta.yaml")

(***************************************************************************)
(* C4: when the template phase has run, every package whose templates      *)
(* directory exists and can be walked has had its templates discovered and *)
(* checked, whatever failed for the other packages.                        *)
(***************************************************************************)
C4_TemplatePhaseCompletes ==
    (pc = "done" /\ metaValid) =>
        \A j \in 1..Len(Items) :
            (HasTemplatesDir(Items[j]) /\ Walkable(j))
            => DiscoveredAndChecked(j)

(***************************************************************************)
(* C5: for every package entry that is a mapping and has been validated,   *)
(* each required field that is missing or empty has exactly one            *)
(* missing-field error naming it and the 1-based index, each field that is *)
(* set has none, so the entry has as many such errors as missing fields.   *)
(***************************************************************************)
RequiredPackageFieldSet ==
    {"name", "title", "description", "type", "templates", "version"}

C5_EveryMissingFieldReported ==
    \A i \in 1..Len(Items) :
        (DefinitionInvoked(i) /\ Items[i].k = "object") =>
            /\ \A f \in RequiredPackageFieldSet :
                   CountEq(errors, PackagePrefix(i) \o "Missing required field: " \o f)
                   = IF Truthy(Items[i][f]) THEN 0 ELSE 1
            /\ CountPrefix(errors, PackagePrefix(i) \o "Missing required field: ")
               = Cardinality({f \in RequiredPackageFieldSet : ~Truthy(Items[i][f])})

C5_NameAndVersionMissing ==
    \E i \in 1..Len(Items) :
        /\ DefinitionInvoked(i)
        /\ Items[i].k = "object"
        /\ {f \in RequiredPackageFieldSet : ~Truthy(Items[i][f])}
           = {"name", "version"}
        /\ Listed(errors, PackagePrefix(i) \o "Missing required field: name")
        /\ Listed(errors, PackagePrefix(i) \o "Missing required field: version")

(***************************************************************************)
(* C6: at the end of a run, a package that is valid except that its        *)
(* templates path does not exist has exactly one error, was never handed   *)
(* to findTemplateFiles, and every other package whose templates directory *)
(* exists has been discovered and has had each template file checked.      *)
(***************************************************************************)
OnlyTemplatesMissing(p) ==
    /\ p.k = "object"
    /\ \A f \in RequiredPackageFieldSet : p[f].k = "string" /\ p[f].s # ""
    /\ MatchesNameFormat(p.name.s)
    /\ \E t \in 1..Len(validTypes) : validTypes[t] = p.type.s
    /\ MatchesSemver(p.version.s)
    /\ p.tags.k \in {"undefined", "array"}
    /\ p.dependencies.k \in {"undefined", "array"}
    /\ ~ExistsSync(p.templates)

C6_MissingDirIsolated ==
    pc = "done" =>
        \A i \in 1..Len(Items) :
            OnlyTemplatesMissing(Items[i]) =>
                /\ CountPrefix(errors, PackagePrefix(i)) = 1
                /\ \A c \in invoked :
                       c.pkg = i => c.fn = "validatePackageDefinition"
                /\ \A j \in 1..Len(Items) :
                       (j # i /\ HasTemplatesDir(Items[j]) /\ Walkable(j))
                       => DiscoveredAndChecked(j)

(***************************************************************************)
(* C7 (as stated): in the report, of two errors (or two warnings) that     *)
(* belong to packages, the one of the lower package index is listed first. *)
(***************************************************************************)
ByPackage(ctx) ==
    \A a, b \in 1..Len(ctx) :
        (a < b /\ ctx[a].pkg > 0 /\ ctx[b].pkg > 0) => ctx[a].pkg <= ctx[b].pkg

PhaseNo(c) == IF c.phase = "meta" THEN 1 ELSE 2

\* position of the file a template finding names among the files found for
\* its package, 0 when it names none
FileNo(message, c) ==
    IF c.phase = "meta" \/ c.pkg = 0 \/ ~HasTemplatesDir(Items[c.pkg]) THEN 0
    ELSE LET files == findTemplateFiles(Items[c.pkg].templates.s).files
             hits == {t \in 1..Len(files) : StartsWith(message, files[t] \o ": ")}
         IN  IF hits = {} THEN 0 ELSE CHOOSE t \in hits : TRUE

\* position of the rule a finding comes from, in the order of the rules
RuleNo(message) ==
    LET fields == {t \in 1..Len(requiredPackageFields) :
                     Includes(message, ": Missing required field: "
                                       \o requiredPackageFields[t])}
        top == {t \in 1..Len(requiredFields) :
                  message = "Missing required field in meta.yaml: "
                            \o requiredFields[t]}
    IN  CASE top # {} -> CHOOSE t \in top : TRUE
          [] StartsWith(message, "Version format should be") -> 6
          [] StartsWith(message, "packages ") -> 7
          [] fields # {} -> CHOOSE t \in fields : TRUE
          [] Includes(message, ": Invalid name format") -> 7
          [] Includes(message, ": Unknown type") -> 8
          [] Includes(message, ": Version should follow") -> 9
          [] Includes(message, ": Templates directory not found") -> 10
          [] Includes(message, ": tags field") -> 11
          [] Includes(message, ": dependencies field") -> 12
          [] Includes(message, ": No template variables found") -> 1
          [] Includes(message, ": Missing package declaration") -> 2
          [] Includes(message, ": fx-module should import") -> 3
          [] Includes(message, ": fx-module should export") -> 4
          [] Includes(message, ": Public function") -> 5
          [] Includes(message, ": No markdown headings") -> 6
          [] Includes(message, ": No installation instructions") -> 7
          [] Includes(message, ": No code examples") -> 8
          [] OTHER -> 13

OrderKey(list, ctx, t) ==
    <<PhaseNo(ctx[t]), ctx[t].pkg, FileNo(list[t], ctx[t]), RuleNo(list[t])>>

LexLeq(x, y) ==
    \/ x = y
    \/ \E n \in 1..Len(x) :
        /\ \A m \in 1..(n - 1) : x[m] = y[m]
        /\ x[n] < y[n]

InRunOrder(list, ctx) ==
    /\ Len(ctx) = Len(list)
    /\ \A a, b \in 1..Len(list) :
           a < b => LexLeq(OrderKey(list, ctx, a), OrderKey(list, ctx, b))

C8_RulesIndependent ==
    pc = "done" =>
        \A c \in invoked :
            (c.fn = "validateTemplateFile" /\ EndsWith(c.path, ".go.tmpl")
                /\ Items[c.pkg].type = Str("fx-module"))
            => LET content == FileContents[c.path]
               IN  /\ ~MatchesPackageDecl(content)
                      => Listed(errors, c.path \o ": Missing package declaration")
                   /\ ~Includes(content, "go.uber.org/fx")
                      => Listed(warnings,
                                c.path \o ": fx-module should import go.uber.org/fx")
                   /\ (~Includes(content, "var Module")
                        /\ ~Includes(content, "func NewModule"))
                      => Listed(warnings,
                                c.path \o ": fx-module should export Module or NewModule function")

(***************************************************************************)
(* C9: at the end of a run on a well-formed catalog with N packages, the   *)
(* info lines hold exactly one validation context for each package 1..N    *)
(* and no other; and a second run on the same catalog and file tree ends   *)
(* with the same errors, warnings, info lines, counts and verdict.         *)
(***************************************************************************)
StringOrAbsent(v) == v.k \in {"string", "undefined"}

WellFormedCatalog ==
    /\ meta.k = "object"
    /\ StringOrAbsent(meta.version)
    /\ IsArray(meta.packages)
    /\ Len(Items) > 0
    /\ \A i \in 1..Len(Items) :
        /\ Items[i].k = "object"
        /\ \A f \in RequiredPackageFieldSet : StringOrAbsent(Items[i][f])

C10_NotFoundAborts ==
    meta.k = "ENOENT" =>
        /\ invoked = {}
        /\ pc \in {"validateMetaYaml", "generateReport", "exit", "done"}
        /\ pc # "validateMetaYaml" => errors = <<"meta.yaml file not found">>
        /\ pc \in {"exit", "done"} => report.printed /\ ~report.isValid
        /\ pc = "done" => exitCode = 1

C10_NotFoundReported ==
    meta.k = "ENOENT" /\ pc = "done" /\ report.printed /\ report.errorCount = 1

(***************************************************************************)
(* C11: the error 'Failed to parse meta.yaml: ...' is recorded only when   *)
(* the text of meta.yaml fails to decode; a document that decodes never    *)
(* gets it, whatever the values of its fields.                             *)
(***************************************************************************)
C11_ParseFailureOnlyOnSyntaxError ==
    \A t \in 1..Len(errors) :
        StartsWith(errors[t], "Failed to parse meta.yaml")
        => meta.k = "YAMLException"

(***************************************************************************)
(* C12: for a catalog whose top-level fields are set and whose packages    *)
(* array is empty, no package check and no template check is ever invoked, *)
(* the only error is 'packages array cannot be empty' and the verdict is   *)
(* fail.                                                                   *)
(***************************************************************************)
EmptyPackagesCatalog ==
    /\ meta.k = "object"
    /\ \A f \in {"version", "repository", "author", "license"} :
           meta[f].k = "string" /\ meta[f].s # ""
    /\ IsArray(meta.packages)
    /\ Len(Items) = 0

C12_EmptyPackagesAborts ==
    EmptyPackagesCatalog =>
        /\ invoked = {}
        /\ pc \in {"validateMetaYaml", "generateReport", "exit", "done"}
        /\ pc # "validateMetaYaml" => errors = <<"packages array cannot be empty">>
        /\ pc \in {"exit", "done"} => report.printed /\ ~report.isValid

C12_EmptyPackagesReported ==
    EmptyPackagesCatalog /\ pc = "done" /\ report.errorCount = 1 /\ exitCode = 1

(***************************************************************************)
(* C13 as stated: a Go template with a package declaration line and no     *)
(* substitution marker gets exactly one warning, the static-file warning,  *)
(* and no error, whatever the type of its package.                         *)
(***************************************************************************)
FileCalls(path) ==
    Cardinality({c \in invoked : c.fn = "validateTemplateFile" /\ c.path = path})

StaticFileWarning(path) ==
    path \o ": No template variables found (might be a static file)"

\* call c checked a Go template with a declaration line and no marker
StaticGoTemplate(c) ==
    /\ c.fn = "validateTemplateFile"
    /\ EndsWith(c.path, ".go.tmpl")
    /\ MatchesPackageDecl(FileContents[c.path])
    /\ ~Includes(FileContents[c.path], "{{")
    /\ ~Includes(FileContents[c.path], "}}")

NoErrorAbout(path) == \A t \in 1..Len(errors) : ~Includes(errors[t], path)

C13_StaticGoOneWarning ==
    pc = "done" =>
        \A c \in invoked :
            StaticGoTemplate(c)
            => /\ CountPrefix(warnings, c.path \o ":") = FileCalls(c.path)
               /\ Listed(warnings, StaticFileWarning(c.path))
               /\ NoErrorAbout(c.path)

(***************************************************************************)
(* C13 amended: such a template gets no error and the static-file warning  *)
(* exactly once; its other warnings are only those of the fx-module rules  *)
(* (for a package of type fx-module) and of the function documentation     *)
(* rule; with another package type and no function in the content the      *)
(* static-file warning is its only warning.                                *)
(***************************************************************************)
FxModuleWarnings(path) ==
    {path \o ": fx-module should import go.uber.org/fx",
     path \o ": fx-module should export Module or NewModule function"}

C13_StaticGoWarnings ==
    pc = "done" =>
        \A c \in invoked :
            StaticGoTemplate(c)
            => /\ NoErrorAbout(c.path)
               /\ CountEq(warnings, StaticFileWarning(c.path)) = FileCalls(c.path)
               /\ \A t \in 1..Len(warnings) :
                      StartsWith(warnings[t], c.path \o ":")
                      => \/ warnings[t] = StaticFileWarning(c.path)
                         \/ /\ warnings[t] \in FxModuleWarnings(c.path)
                            /\ \E d \in invoked :
                                   /\ d.fn = "validateTemplateFile"
                                   /\ d.path = c.path
                                   /\ Items[d.pkg].type = Str("fx-module")
                         \/ StartsWith(warnings[t], c.path \o ": Public function ")
               /\ (Items[c.pkg].type # Str("fx-module")
                      /\ Len(Items) = 1
                      /\ ~Includes(FileContents[c.path], "func"))
                  => CountPrefix(warnings, c.path \o ":") = 1

C13_StaticFxTemplateChecked ==
    /\ pc = "done"
    /\ \E c \in invoked :
           /\ StaticGoTemplate(c)
           /\ Items[c.pkg].type = Str("fx-module")
           /\ FxModuleWarnings(c.path) \subseteq {warnings[t] : t \in 1..Len(warnings)}
           /\ Listed(warnings, StaticFileWarning(c.path))

(***************************************************************************)
(* C14 as stated: a catalog of the single package acme/cache, fx-module,   *)
(* whose templates are cache.go.tmpl (package cache, no fx import, no      *)
(* Module export) and README.md.tmpl (a heading, no install text, no code  *)
(* fence) ends with exactly 4 warnings, 0 errors and the verdict pass.     *)
(***************************************************************************)
CacheDir == Items[1].templates.s
CacheGo == FileContents[PathJoin(CacheDir, "cache.go.tmpl")]
CacheReadme == FileContents[PathJoin(CacheDir, "README.md.tmpl")]

CacheScenario ==
    /\ meta.k = "object"
    /\ IsArray(meta.packages)
    /\ Len(Items) = 1
    /\ meta = Catalog(<<Items[1]>>)
    /\ HasTemplatesDir(Items[1])
    /\ [Items[1] EXCEPT !.templates = PkgCache.templates] = PkgCache
    /\ findTemplateFiles(CacheDir).files
           = <<PathJoin(CacheDir, "cache.go.tmpl"), PathJoin(CacheDir, "README.md.tmpl")>>
    /\ Includes(CacheGo, "package cache") /\ MatchesPackageDecl(CacheGo)
    /\ ~Includes(CacheGo, "go.uber.org/fx")
    /\ ~Includes(CacheGo, "var Module") /\ ~Includes(CacheGo, "func NewModule")
    /\ Includes(CacheReadme, "#")
    /\ ~Includes(ToLowerCase(CacheReadme), "install")
    /\ ~Includes(CacheReadme, CodeFence)

CacheScenarioWarnings ==
    {PathJoin(CacheDir, "cache.go.tmpl") \o ": fx-module should import go.uber.org/fx",
     PathJoin(CacheDir, "cache.go.tmpl")
         \o ": fx-module should export Module or NewModule function",
     PathJoin(CacheDir, "README.md.tmpl") \o ": No installation instructions found",
     PathJoin(CacheDir, "README.md.tmpl") \o ": No code examples found"}

C14_CacheScenarioFourWarnings ==
    (CacheScenario /\ pc = "done") =>
        /\ Len(warnings) = 4
        /\ Len(errors) = 0
        /\ report.isValid

(***************************************************************************)
(* C14 amended: the scenario ends with exactly those 4 warnings, 0 errors  *)
(* and the verdict pass when both templates hold a substitution marker and *)
(* every function of the Go template has a name that starts with a         *)
(* lower-case letter.                                                      *)
(***************************************************************************)
HasMarkers(content) == Includes(content, "{{") /\ Includes(content, "}}")

OnlyLowerCaseFunctions(content) ==
    LET functionMatches == FuncMatchesFrom(content, 1)
    IN  \A t \in 1..Len(functionMatches) :
            CharAt(ReplaceFuncPrefix(functionMatches[t]), 1) \in LowerChars

C14_CacheScenarioWithMarkers ==
    (CacheScenario /\ pc = "done" /\ HasMarkers(CacheGo) /\ HasMarkers(CacheReadme)
        /\ OnlyLowerCaseFunctions(CacheGo)) =>
        /\ Len(warnings) = 4
        /\ {warnings[t] : t \in 1..Len(warnings)} = CacheScenarioWarnings
        /\ Len(errors) = 0
        /\ report.isValid /\ exitCode = 0

C14_CacheScenarioPassed ==
    /\ CacheScenario /\ pc = "done" /\ HasMarkers(CacheGo) /\ HasMarkers(CacheReadme)
    /\ OnlyLowerCaseFunctions(CacheGo)
    /\ Len(warnings) = 4 /\ report.isValid

(***************************************************************************)
(* C15: every checked template whose path holds 'readme' in any letter     *)
(* case gets the heading, install and code-fence checks, one warning per   *)
(* missing element; a template whose path does not hold it gets none.      *)
(***************************************************************************)
DocWarnings(path, content) ==
    (IF ~Includes(content, "#")
     THEN {path \o ": No markdown headings found"} ELSE {})
    \cup (IF ~Includes(ToLowerCase(content), "install")
          THEN {path \o ": No installation instructions found"} ELSE {})
    \cup (IF ~Includes(content, CodeFence)
          THEN {path \o ": No code examples found"} ELSE {})

AllDocWarnings(path) ==
    {path \o ": No markdown headings found",
     path \o ": No installation instructions found",
     path \o ": No code examples found"}

C15_ReadmeMarkerAnyCase ==
    pc = "done" =>
        \A c \in invoked :
            c.fn = "validateTemplateFile" =>
                LET listed == {w \in AllDocWarnings(c.path) : Listed(warnings, w)}
                IN  IF Includes(ToLowerCase(c.path), "readme")
                    THEN /\ listed = DocWarnings(c.path, FileContents[c.path])
                         /\ \A w \in listed : CountEq(warnings, w) = FileCalls(c.path)
                         /\ \A w \in AllDocWarnings(c.path) : ~Listed(errors, w)
                    ELSE listed = {}

(***************************************************************************)
(* C16: for every validated package, tags (dependencies) set to any value  *)
(* that is not a sequence, the empty string, 0 and false included, gives   *)
(* one error naming the field and the package index; an absent field or a  *)
(* sequence gives none.                                                    *)
(***************************************************************************)
OptionalFields == {"tags", "dependencies"}

MustBeArrayError(i, field) == PackagePrefix(i) \o field \o " field must be an array"

C16_NonSequenceIsAnError ==
    pc = "done" =>
        \A i \in 1..Len(Items) : \A field \in OptionalFields :
            (DefinitionInvoked(i) /\ Items[i].k = "object") =>
                LET value == Items[i][field]
                IN  /\ value.k \in {"string", "number", "boolean"}
                       => CountEq(errors, MustBeArrayError(i, field)) = 1
                    /\ value.k \in {"undefined", "array"}
                       => ~Listed(errors, MustBeArrayError(i, field))

(***************************************************************************)
(* C17: a validated package whose type is not one of the five recognized   *)
(* values, or whose version does not match ^v?\d+\.\d+\.\d+, gets one      *)
(* warning of that rule and no error of it; a catalog whose only defects   *)
(* are such types and versions ends with the verdict pass.                 *)
(***************************************************************************)
UnknownTypePrefix(i) == PackagePrefix(i) \o "Unknown type"
BadVersionPrefix(i) == PackagePrefix(i) \o "Version should follow semantic versioning"

RecognizedTypes == {"fx-module", "cli-command", "utility", "middleware", "service"}

\* packages that pass every rule, with templates that give no error
CleanPkgs == {PkgCache, PkgHttp}

\* entry i differs from a clean package in its type and its version only
OnlyTypeAndVersionDiffer(i) ==
    /\ Items[i].k = "object"
    /\ Truthy(Items[i].type) /\ Truthy(Items[i].version)
    /\ \E c \in CleanPkgs :
           [Items[i] EXCEPT !.type = c.type, !.version = c.version] = c

OnlyAdvisoryDefects ==
    /\ meta.k = "object" /\ IsArray(meta.packages) /\ Len(Items) >= 1
    /\ meta = Catalog(Items)
    /\ \A i \in 1..Len(Items) : OnlyTypeAndVersionDiffer(i)

C17_AdvisoryRulesNeverFail ==
    pc = "done" =>
        /\ \A i \in 1..Len(Items) :
               (DefinitionInvoked(i) /\ Items[i].k = "object") =>
                   /\ (Truthy(Items[i].type)
                          /\ ~(Items[i].type.k = "string"
                               /\ Items[i].type.s \in RecognizedTypes))
                      => /\ CountPrefix(warnings, UnknownTypePrefix(i)) = 1
                         /\ CountPrefix(errors, UnknownTypePrefix(i)) = 0
                   /\ (Truthy(Items[i].version)
                          /\ ~(Items[i].version.k = "string"
                               /\ MatchesSemver(Items[i].version.s)))
                      => /\ CountPrefix(warnings, BadVersionPrefix(i)) = 1
                         /\ CountPrefix(errors, BadVersionPrefix(i)) = 0
        /\ OnlyAdvisoryDefects => Len(errors) = 0 /\ report.isValid /\ exitCode = 0

(***************************************************************************)
(* C18: for every package whose templates directory exists and holds no    *)
(* template file in its subtree, the run records the error 'No template    *)
(* files found' for that package, the verdict is fail and no template file *)
(* check is run for it.                                                    *)
(***************************************************************************)
NoTemplateIn(dir) ==
    ~findTemplateFiles(dir).threw /\ findTemplateFiles(dir).files = <<>>

NoTemplatesError(j) ==
    PackagePrefix(j) \o "No template files found in " \o Items[j].templates.s

C18_EmptyTemplateSetIsAnError ==
    (pc = "done" /\ meta.k = "object" /\ IsArray(meta.packages)) =>
        \A j \in 1..Len(Items) :
            (HasTemplatesDir(Items[j]) /\ NoTemplateIn(Items[j].templates.s))
            => /\ CountEq(errors, NoTemplatesError(j)) = 1
               /\ ~report.isValid
               /\ \A c \in invoked : ~(c.fn = "validateTemplateFile" /\ c.pkg = j)

(***************************************************************************)
(* C19: for every Go template and every function declared in it, the       *)
(* warning 'Public function <name> missing documentation comment' is       *)
(* recorded exactly once when the function is exported and the line before *)
(* its declaration is not a comment line, and not at all otherwise; the    *)
(* rule never records an error.                                            *)
(***************************************************************************)
\* position of the line terminator that ends the line starting at i
RECURSIVE LineEnd(_, _)
LineEnd(content, i) ==
    IF i > Len(content) \/ CharAt(content, i) = "\n" THEN i
    ELSE LineEnd(content, i + 1)

RECURSIVE LinesFrom(_, _)
LinesFrom(content, i) ==
    IF i > Len(content) THEN <<>>
    ELSE <<Substring(content, i, LineEnd(content, i) - 1)>>
         \o LinesFrom(content, LineEnd(content, i) + 1)

\* the name a line declares as a function ("" when it declares none)
DeclaredName(line) ==
    IF StartsWith(line, "func ")
       /\ RunEnd(line, 6, WordChars) >= 6
       /\ CharAt(line, RunEnd(line, 6, WordChars) + 1) = "("
    THEN Substring(line, 6, RunEnd(line, 6, WordChars))
    ELSE ""

Exported(name) == CharAt(name, 1) \in UpperChars

Documented(lines, k) == k > 1 /\ StartsWith(lines[k - 1], "//")

UndocumentedWarning(path, name) ==
    path \o ": Public function " \o name \o " missing documentation comment"

C19_UndocumentedExportedFunctions ==
    pc = "done" =>
        \A c \in invoked :
            (c.fn = "validateTemplateFile" /\ EndsWith(c.path, ".go.tmpl")) =>
                LET lines == LinesFrom(FileContents[c.path], 1)
                IN  \A k \in 1..Len(lines) :
                        DeclaredName(lines[k]) # "" =>
                            /\ CountEq(warnings, UndocumentedWarning(c.path, DeclaredName(lines[k])))
                                   = IF Exported(DeclaredName(lines[k])) /\ ~Documented(lines, k)
                                     THEN FileCalls(c.path) ELSE 0
                            /\ \A t \in 1..Len(errors) :
                                   ~Includes(errors[t], "Public function")

(***************************************************************************)
(* C20: for a document that is a mapping, every top-level required field   *)
(* that is missing gets exactly one error naming it, all of them in the     *)
(* same run, a field that is set gets none, and the verdict is fail when a  *)
(* field is missing.                                                       *)
(***************************************************************************)
RequiredMetaFieldSet == {requiredFields[n] : n \in 1..Len(requiredFields)}

MissingMetaFieldError(field) == "Missing required field in meta.yaml: " \o field

MissingInMeta(field) == meta[field].k = "undefined"

Exited == pc \in {"done", "aborted"}

C21_ExitStatusMirrorsVerdict ==
    /\ Exited => /\ exitCode \in {0, 1}
                 /\ exitCode = 0 <=> (report.printed /\ Len(errors) = 0)
                 /\ report.printed => (exitCode = 0 <=> report.isValid)
    /\ ~Exited => exitCode = -1

C21_ExitedZeroWithWarnings ==
    pc = "done" /\ exitCode = 0 /\ Len(errors) = 0 /\ Len(warnings) > 0

(***************************************************************************)
(* C22: whenever validateMetaYaml has returned true no error has been      *)
(* recorded, so validateTemplates is never entered with a non-empty list   *)
(* of errors.                                                              *)
(***************************************************************************)
C22_TemplatesOnlyAfterCleanMetadata ==
    /\ \A r \in returns :
           (r.fn = "validateMetaYaml" /\ r.ret) => r.appended = 0
    /\ pc = "validateTemplates" => Len(errors) = 0

(***************************************************************************)
(* C23: a log call of level error, warning or info appends exactly one     *)
(* entry to the list of that level and leaves the entries already there    *)
(* and the two other lists as they are, a success log changes no list, the *)
(* same message logged for two packages is listed twice, the counts of the *)
(* report are the lengths of the three lists, and no step of a run removes *)
(* or changes an entry.                                                    *)
(***************************************************************************)
LogLevels == {"error", "warning", "info", "success"}

\* a new message and every message already listed
LogMessages ==
    {"new finding"}
    \cup {errors[t] : t \in 1..Len(errors)}
    \cup {warnings[t] : t \in 1..Len(warnings)}
    \cup {info[t] : t \in 1..Len(info)}

LogAppendsOne ==
    \A level \in LogLevels : \A message \in LogMessages :
        LET w == log(this, level, message)
        IN  /\ w.errors = IF level = "error" THEN Append(errors, message) ELSE errors
            /\ w.warnings = IF level = "warning" THEN Append(warnings, message)
                            ELSE warnings
            /\ w.info = IF level = "info" THEN Append(info, message) ELSE info

ReportCountsAreLengths ==
    report.printed =>
        /\ report.errorCount = Len(errors)
        /\ report.warningCount = Len(warnings)
        /\ report.passed = Len(info)

EveryCheckListed ==
    pc = "done" =>
        \A c \in invoked :
            c.fn = "validateTemplateFile"
            => CountEq(info, "Validating template: " \o c.path) = FileCalls(c.path)

IsPrefix(old, new) ==
    Len(old) <= Len(new) /\ SubSeq(new, 1, Len(old)) = old

C23_FindingsAppendOnly ==
    /\ [](LogAppendsOne /\ ReportCountsAreLengths /\ EveryCheckListed)
    /\ [][pc # "done" => /\ IsPrefix(errors, errors')
                         /\ IsPrefix(warnings, warnings')
                         /\ IsPrefix(info, info')]_vars

C23_SameMessageListedTwice ==
    /\ pc = "done" /\ report.printed
    /\ \E c \in invoked :
           /\ c.fn = "validateTemplateFile"
           /\ FileCalls(c.path) = 2
           /\ CountEq(info, "Validating template: " \o c.path) = 2
           /\ CountPrefix(warnings, c.path \o ":") >= 2

(***************************************************************************)
(* C24: validateTemplates, validatePackageTemplates and                    *)
(* validateTemplateFile return false if and only if an error was appended  *)
(* during the call; validateMetaYaml returns false only after it appended  *)
(* an error; the verdict is never pass once a step has returned false.     *)
(***************************************************************************)
TemplateSteps ==
    {"validateTemplates", "validatePackageTemplates", "validateTemplateFile"}

C24_ReturnsMatchFindings ==
    /\ \A r \in returns :
           /\ r.fn \in TemplateSteps => (~r.ret <=> r.appended >= 1)
           /\ (r.fn = "validateMetaYaml" /\ ~r.ret) => r.appended >= 1
    /\ (report.printed /\ \E r \in returns : ~r.ret)
       => ~report.isValid /\ Len(errors) >= 1
    /\ (pc = "done" /\ \E r \in returns : ~r.ret) => exitCode = 1

C24_FalseAndTrueReturns ==
    /\ pc = "done" /\ ~report.isValid
    /\ \E r \in returns : r.fn = "validateTemplateFile" /\ ~r.ret /\ r.appended = 1
    /\ \E r \in returns : r.fn = "validateTemplateFile" /\ r.ret /\ r.appended = 0
    /\ \E r \in returns : r.fn = "validatePackageTemplates" /\ ~r.ret
    /\ \E r \in returns : r.fn = "validatePackageTemplates" /\ r.ret
    /\ \E r \in returns : r.fn = "validateTemplates" /\ ~r.ret

====
